---- MODULE Spec2Model ----
(***************************************************************************)
(* cargo-arch, src/config/arch.rs: resolution of the Arch Linux package    *)
(* configuration from a Cargo manifest (Cargo::to_config) and generation   *)
(* of the PKGBUILD file (ArchConfig::new, ArchConfig::generate_pkgbuild).  *)
(*                                                                         *)
(* A Rust String is a sequence of one-character strings, a Vec<String> a   *)
(* sequence of such sequences, Option<T> is None (the empty tuple) or      *)
(* Some(x) (the one-element tuple <<x>>).                                  *)
(***************************************************************************)
EXTENDS Integers, Sequences, FiniteSets, TLC

VARIABLES
    manifest_path,  \* argument of ArchConfig::new: Option<&str>
    env_dir,        \* environment variable CARGO_MANIFEST_DIR: Option<String>
    fs,             \* manifest files on disk, by path
    pkgbuild,       \* the file ./PKGBUILD on disk: Option<String>
    pc,             \* position of the run
    content,        \* what read_to_string put in `content`: Option<file>
    config,         \* the ArchConfig returned by ArchConfig::new: Option<ArchConfig>
    buffer,         \* the String built by generate_pkgbuild
    before,         \* history: Some(PKGBUILD on disk when the current run
                    \* started), kept for the first run and for a run that
                    \* follows a successful run, None otherwise
    last,           \* history: outcome of the previous run
    runs            \* history: number of runs started

vars == <<manifest_path, env_dir, fs, pkgbuild, pc, content, config, buffer,
          before, last, runs>>

----------------------------------------------------------------------------
(* Bounds *)

\* longest Vec<String> given to an override array field
MaxElems == 2
\* longest manifest license string enumerated character by character
MaxLicLen == 3
\* number of runs of the program in one behaviour
MaxRuns == 2
\* length of the longest PKGBUILD found on disk before the first run
OldLen == 700

----------------------------------------------------------------------------
(* Option<T> *)

None == <<>>
Some(x) == <<x>>

\* Option::unwrap_or
unwrap_or(o, d) == IF o = None THEN d ELSE o[1]

\* Option::or
or(a, b) == IF a # None THEN a ELSE b

----------------------------------------------------------------------------
(* str *)

RECURSIVE Concat(_)
\* concatenation of a sequence of strings
Concat(ss) == IF ss = <<>> THEN <<>> ELSE Head(ss) \o Concat(Tail(ss))

\* index of the first occurrence of character c in s, 0 if there is none
IndexOf(s, c) ==
    IF \E i \in 1..Len(s) : s[i] = c
    THEN CHOOSE i \in 1..Len(s) : s[i] = c /\ \A j \in 1..(i - 1) : s[j] # c
    ELSE 0

\* a replace that rewrites only the first occurrence (str::replacen(from, to, 1))
replacen1(s, from, to) ==
    [i \in 1..Len(s) |-> IF i = IndexOf(s, from) THEN to ELSE s[i]]

\* str::replace with one-character patterns: every occurrence is rewritten
replace(s, from, to) ==
    [i \in 1..Len(s) |-> IF s[i] = from THEN to ELSE s[i]]

RECURSIVE split(_, _)
\* str::split(sep).collect(): the pieces between separators, empty pieces kept
split(s, sep) ==
    LET i == IndexOf(s, sep)
    IN  IF i = 0 THEN <<s>>
        ELSE <<SubSeq(s, 1, i - 1)>> \o split(SubSeq(s, i + 1, Len(s)), sep)

----------------------------------------------------------------------------
(* CargoArch, CargoMetadata *)

\* the fields of CargoArch that are Option<String>
ScalarFields ==
    {"pkgname", "pkgver", "pkgrel", "epoch", "pkgdesc", "url", "install",
     "changelog"}

\* the fields of CargoArch that are Option<Vec<String>>
ArrayFields ==
    {"maintainers", "license", "source", "validpgpkeys", "noextract",
     "md5sums", "sha1sums", "sha256sums", "sha384sums", "sha512sums",
     "groups", "arch", "backup", "depends", "makedepends", "checkdepends",
     "optdepends", "conflicts", "provides", "replaces", "options"}

\* the fields of CargoArch, which are the fields of ArchConfig
Fields == ScalarFields \cup ArrayFields

\* CargoArch::default(): #[derive(Default)] makes every Option None
CargoArch_default == [f \in Fields |-> None]

\* CargoMetadata::default(): no arch table
CargoMetadata_default == [arch |-> None]

----------------------------------------------------------------------------
(* Cargo::to_config *)

\* the [package.metadata.arch] table consulted by to_config
arch_config_of(self) ==
    unwrap_or(unwrap_or(self.package.metadata, CargoMetadata_default).arch,
              CargoArch_default)

\* a resolution of pkgname that prefers the manifest name
pkgname_manifest_first(arch_config, self) == self.package.name

\* let pkgname
pkgname_of(arch_config, self) == unwrap_or(arch_config.pkgname, self.package.name)

\* a resolution of pkgrel whose default is "0"
pkgrel_default_zero(arch_config) == unwrap_or(arch_config.pkgrel, <<"0">>)

\* let pkgrel
pkgrel_of(arch_config) == unwrap_or(arch_config.pkgrel, <<"1">>)

\* a url chain that consults repository before homepage
url_repository_first(arch_config, self) ==
    unwrap_or(or(or(arch_config.url, self.package.repository),
                 self.package.homepage), <<>>)

\* let url
url_of(arch_config, self) ==
    unwrap_or(or(or(arch_config.url, self.package.homepage),
                 self.package.repository), <<>>)

\* let license
license_of(arch_config, self) ==
    unwrap_or(arch_config.license, split(self.package.license, "/"))

to_config(self) ==
    LET arch_config == arch_config_of(self)
    IN  [maintainers  |-> unwrap_or(arch_config.maintainers, self.package.authors),
         pkgname      |-> pkgname_of(arch_config, self),
         pkgver       |-> unwrap_or(arch_config.pkgver, self.package.version),
         pkgrel       |-> pkgrel_of(arch_config),
         epoch        |-> unwrap_or(arch_config.epoch, <<"0">>),
         pkgdesc      |-> unwrap_or(arch_config.pkgdesc, self.package.description),
         url          |-> url_of(arch_config, self),
         license      |-> license_of(arch_config, self),
         install      |-> unwrap_or(arch_config.install, <<>>),
         changelog    |-> unwrap_or(arch_config.changelog, <<>>),
         source       |-> unwrap_or(arch_config.source, <<>>),
         validpgpkeys |-> unwrap_or(arch_config.validpgpkeys, <<>>),
         noextract    |-> unwrap_or(arch_config.noextract, <<>>),
         md5sums      |-> unwrap_or(arch_config.md5sums, <<>>),
         sha1sums     |-> unwrap_or(arch_config.sha1sums, <<>>),
         sha256sums   |-> unwrap_or(arch_config.sha256sums, <<>>),
         sha384sums   |-> unwrap_or(arch_config.sha384sums, <<>>),
         sha512sums   |-> unwrap_or(arch_config.sha512sums, <<>>),
         groups       |-> unwrap_or(arch_config.groups, <<>>),
         arch         |-> unwrap_or(arch_config.arch, <<>>),
         backup       |-> unwrap_or(arch_config.backup, <<>>),
         depends      |-> unwrap_or(arch_config.depends, <<>>),
         makedepends  |-> unwrap_or(arch_config.makedepends, <<>>),
         checkdepends |-> unwrap_or(arch_config.checkdepends, <<>>),
         optdepends   |-> unwrap_or(arch_config.optdepends, <<>>),
         conflicts    |-> unwrap_or(arch_config.conflicts, <<>>),
         provides     |-> unwrap_or(arch_config.provides, <<>>),
         replaces     |-> unwrap_or(arch_config.replaces, <<>>),
         options      |-> unwrap_or(arch_config.options, <<>>)]

----------------------------------------------------------------------------
(* ArchConfig::generate_pkgbuild: building the buffer *)

\* include_str!("PKGBUILD-TEMPLATE"): a static asset, appended verbatim
PKGBUILD_TEMPLATE == <<"b", "u", "i", "l", "d", "(", ")", " ", "{", "\n", "}", "\n">>

\* format!($fmt, $data) for a format string with one {} between pre and post
format(pre, data, post) == pre \o data \o post

RECURSIVE skip_1(_, _, _)
\* the loop `for i in data.iter().skip(1)` of quote_data, from index i on,
\* each element pushed after sep
skip_1(data, i, sep) ==
    IF i > Len(data) THEN <<>>
    ELSE sep \o data[i] \o <<"\"">> \o skip_1(data, i + 1, sep)

\* a quote_data that separates the elements by a comma alone
quote_data_comma(data) ==
    IF Len(data) = 0 THEN <<>>
    ELSE <<"\"">> \o data[1] \o <<"\"">> \o skip_1(data, 2, <<",", "\"">>)

\* fn quote_data
quote_data(data) ==
    IF Len(data) = 0 THEN <<>>
    ELSE <<"\"">> \o data[1] \o <<"\"">> \o skip_1(data, 2, <<",", " ", "\"">>)

RECURSIVE maintainer_lines(_)
\* the loop `for i in &self.maintainers`
maintainer_lines(ms) ==
    IF ms = <<>> THEN <<>>
    ELSE format(<<"#", " ", "M", "a", "i", "n", "t", "a", "i", "n", "e", "r", ":", " ">>, Head(ms), <<"\n">>) \o maintainer_lines(Tail(ms))

\* a header that is not closed by a blank line
header_no_blank(self) == maintainer_lines(self.maintainers)

\* the maintainer comments and the blank line after them
header(self) == maintainer_lines(self.maintainers) \o <<"\n">>

\* the scalar lines with install and changelog emitted in the other order
scalar_lines_swapped(self) ==
    << format(<<"p", "k", "g", "n", "a", "m", "e", "=">>, self.pkgname, <<"\n">>),
       format(<<"p", "k", "g", "v", "e", "r", "=">>, replace(self.pkgver, "-", "_"), <<"\n">>),
       format(<<"p", "k", "g", "r", "e", "l", "=">>, self.pkgrel, <<"\n">>),
       format(<<"e", "p", "o", "c", "h", "=">>, self.epoch, <<"\n">>),
       format(<<"p", "k", "g", "d", "e", "s", "c", "=", "\"">>, self.pkgdesc, <<"\"", "\n">>),
       format(<<"u", "r", "l", "=", "\"">>, self.url, <<"\"", "\n">>),
       format(<<"l", "i", "c", "e", "n", "s", "e", "=", "(">>, quote_data(self.license), <<")", "\n">>),
       format(<<"c", "h", "a", "n", "g", "e", "l", "o", "g", "=", "\"">>, self.changelog, <<"\"", "\n">>),
       format(<<"i", "n", "s", "t", "a", "l", "l", "=", "\"">>, self.install, <<"\"", "\n">>) >>

\* the add_data! calls from pkgname to changelog, one string each
scalar_lines(self) ==
    << format(<<"p", "k", "g", "n", "a", "m", "e", "=">>, self.pkgname, <<"\n">>),
       format(<<"p", "k", "g", "v", "e", "r", "=">>, replace(self.pkgver, "-", "_"), <<"\n">>),
       format(<<"p", "k", "g", "r", "e", "l", "=">>, self.pkgrel, <<"\n">>),
       format(<<"e", "p", "o", "c", "h", "=">>, self.epoch, <<"\n">>),
       format(<<"p", "k", "g", "d", "e", "s", "c", "=", "\"">>, self.pkgdesc, <<"\"", "\n">>),
       format(<<"u", "r", "l", "=", "\"">>, self.url, <<"\"", "\n">>),
       format(<<"l", "i", "c", "e", "n", "s", "e", "=", "(">>, quote_data(self.license), <<")", "\n">>),
       format(<<"i", "n", "s", "t", "a", "l", "l", "=", "\"">>, self.install, <<"\"", "\n">>),
       format(<<"c", "h", "a", "n", "g", "e", "l", "o", "g", "=", "\"">>, self.changelog, <<"\"", "\n">>) >>

\* the add_data! calls from source to options, one string each
array_lines(self) ==
    << format(<<"s", "o", "u", "r", "c", "e", "=", "(">>, quote_data(self.source), <<")", "\n">>),
       format(<<"v", "a", "l", "i", "d", "p", "g", "p", "k", "e", "y", "s", "=", "(">>, quote_data(self.validpgpkeys), <<")", "\n">>),
       format(<<"n", "o", "e", "x", "t", "r", "a", "c", "t", "=", "(">>, quote_data(self.noextract), <<")", "\n">>),
       format(<<"m", "d", "5", "s", "u", "m", "s", "=", "(">>, quote_data(self.md5sums), <<")", "\n">>),
       format(<<"s", "h", "a", "1", "s", "u", "m", "s", "=", "(">>, quote_data(self.sha1sums), <<")", "\n">>),
       format(<<"s", "h", "a", "2", "5", "6", "s", "u", "m", "s", "=", "(">>, quote_data(self.sha256sums), <<")", "\n">>),
       format(<<"s", "h", "a", "3", "8", "4", "s", "u", "m", "s", "=", "(">>, quote_data(self.sha384sums), <<")", "\n">>),
       format(<<"s", "h", "a", "5", "1", "2", "s", "u", "m", "s", "=", "(">>, quote_data(self.sha512sums), <<")", "\n">>),
       format(<<"g", "r", "o", "u", "p", "s", "=", "(">>, quote_data(self.groups), <<")", "\n">>),
       format(<<"a", "r", "c", "h", "=", "(">>, quote_data(self.arch), <<")", "\n">>),
       format(<<"b", "a", "c", "k", "u", "p", "=", "(">>, quote_data(self.backup), <<")", "\n">>),
       format(<<"d", "e", "p", "e", "n", "d", "s", "=", "(">>, quote_data(self.depends), <<")", "\n">>),
       format(<<"m", "a", "k", "e", "d", "e", "p", "e", "n", "d", "s", "=", "(">>, quote_data(self.makedepends), <<")", "\n">>),
       format(<<"c", "h", "e", "c", "k", "d", "e", "p", "e", "n", "d", "s", "=", "(">>, quote_data(self.checkdepends), <<")", "\n">>),
       format(<<"o", "p", "t", "d", "e", "p", "e", "n", "d", "s", "=", "(">>, quote_data(self.optdepends), <<")", "\n">>),
       format(<<"c", "o", "n", "f", "l", "i", "c", "t", "s", "=", "(">>, quote_data(self.conflicts), <<")", "\n">>),
       format(<<"p", "r", "o", "v", "i", "d", "e", "s", "=", "(">>, quote_data(self.provides), <<")", "\n">>),
       format(<<"r", "e", "p", "l", "a", "c", "e", "s", "=", "(">>, quote_data(self.replaces), <<")", "\n">>),
       format(<<"o", "p", "t", "i", "o", "n", "s", "=", "(">>, quote_data(self.options), <<")", "\n">>) >>

\* the value of `buffer` when generate_pkgbuild reaches File::create
pkgbuild_text(self) ==
    header(self) \o Concat(scalar_lines(self)) \o Concat(array_lines(self))
        \o <<"\n">> \o PKGBUILD_TEMPLATE

----------------------------------------------------------------------------
(* Files *)

\* the manifest read by ArchConfig::new; paths are plain strings
ManifestPath(path_arg, env) ==
    unwrap_or(path_arg, unwrap_or(env, ".")) \o "/Cargo.toml"

\* the directories a manifest is looked up in
Dirs == {".", "e", "p"}

\* the paths ManifestPath can name
ManifestPaths == {d \o "/Cargo.toml" : d \in Dirs}

\* a file that does not exist
Absent == [kind |-> "absent", cargo |-> None]

\* a file whose bytes are not UTF-8
NonUtf8 == [kind |-> "nonutf8", cargo |-> None]

\* a file whose text does not decode to a Cargo value
Malformed == [kind |-> "malformed", cargo |-> None]

\* a file whose text decodes (toml::from_str) to the Cargo value c
Valid(c) == [kind |-> "valid", cargo |-> Some(c)]

\* an open that leaves an existing file's content in place
FileCreate_keep(file) == IF file = None THEN Some(<<>>) ELSE file

\* File::create: the file exists afterwards and is empty
FileCreate(file) == Some(<<>>)

\* the file after data is written from its start (the position of a file
\* that was just opened)
WriteAt0(file, data) ==
    Some(data \o SubSeq(file[1], Len(data) + 1, Len(file[1])))

\* the lengths at which a failing write_all of n characters can have
\* stopped: any number of characters short of all of them
WriteCuts(n) == 0..(n - 1)

----------------------------------------------------------------------------
(* Inputs *)

\* a manifest without [package.metadata]
Package(name, version, authors, description, license, homepage, repository) ==
    [package |-> [name |-> name, version |-> version, authors |-> authors,
                  description |-> description, license |-> license,
                  homepage |-> homepage, repository |-> repository,
                  metadata |-> None]]

B1 == Package(<<"d", "e", "m", "o">>, <<"0", ".", "1", ".", "0">>, <<<<"A", " ", "<", "a", "@", "x", ".", "c", "o", "m", ">">>>>, <<"d">>, <<"M", "I", "T">>, None, None)
B2 == Package(<<"n">>, <<"1", "-", "b", "-", "2">>, <<<<"A">>, <<"B">>>>, <<"x", "\"", "y">>, <<"M", "/", "A">>, Some(<<"h">>), Some(<<"r">>))
B3 == Package(<<"m">>, <<"2">>, <<>>, <<>>, <<>>, None, Some(<<"r">>))

BaseCargos == {B1, B2, B3}

\* the override table with exactly the fields of P present, the strings
\* being sv and the arrays av
MkArch(P, sv, av) ==
    [f \in Fields |->
        IF f \in P THEN Some(IF f \in ScalarFields THEN sv ELSE av) ELSE None]

\* manifest b with its metadata of the given shape
WithMeta(b, shape, a) ==
    [package |-> [b.package EXCEPT !.metadata =
        CASE shape = "none"   -> None
          [] shape = "noarch" -> Some([arch |-> None])
          [] shape = "arch"   -> Some([arch |-> Some(a)])]]

\* sequences over S of length at most n
SeqsUpTo(S, n) == UNION {[1..k -> S] : k \in 0..n}

\* which override fields are present: none, one, all but one, all
Presences ==
    {{}, Fields} \cup {{f} : f \in Fields} \cup {Fields \ {f} : f \in Fields}

\* overrides against manifests: every presence pattern, empty and non-empty
\* override values
PrecedenceCargos ==
    {WithMeta(b, "arch", MkArch(P, sv, av)) :
        b \in BaseCargos, P \in Presences, sv \in {<<>>, <<"o">>},
        av \in {<<>>, <<<<"e">>>>}}

\* the three ways of overriding nothing
ShapeCargos ==
    {WithMeta(b, shape, CargoArch_default) :
        b \in BaseCargos, shape \in {"none", "noarch", "arch"}}

\* every presence combination of override url, homepage and repository
UrlCargos ==
    {[package |-> [WithMeta(B1, "arch", [CargoArch_default EXCEPT !.url = u]).package
                     EXCEPT !.homepage = h, !.repository = r]] :
        u \in {None, Some(<<>>), Some(<<"u">>)},
        h \in {None, Some(<<>>), Some(<<"h">>)},
        r \in {None, Some(<<>>), Some(<<"r">>)}}

\* manifest license strings over letters, slashes and blanks
LicenseStrings == SeqsUpTo({"M", "/", " "}, MaxLicLen)

LicenseCargos ==
    {[package |-> [WithMeta(B1, "arch", [CargoArch_default EXCEPT !.license = o]).package
                     EXCEPT !.license = l]] :
        l \in LicenseStrings, o \in {None, Some(<<<<"G", "P", "L">>>>)}}

\* strings with hyphens, quotes and newlines
OddStrings == {<<"a", "-", "b", "-", "c">>, <<"-", "-">>, <<"q", "\"", "q">>, <<"x", "\n", "u", "r", "l", "=">>}

\* array elements with quotes, separators and newlines
OddElems == {<<"e">>, <<"\"">>, <<",", " ">>, <<"\n", "u", "r", "l", "=">>}

OddCargos ==
    {WithMeta(b, "arch", MkArch(P, sv, av)) :
        b \in {B2}, P \in {Fields, Fields \ {"pkgver", "source"}},
        sv \in OddStrings, av \in SeqsUpTo(OddElems, MaxElems)}

\* the manifests of the resolution and rendering checks
ConfigCargos ==
    PrecedenceCargos \cup ShapeCargos \cup UrlCargos \cup LicenseCargos
        \cup OddCargos

\* the manifests of whole runs
RunCargos ==
    {WithMeta(B1, "none", CargoArch_default),
     WithMeta(B2, "noarch", CargoArch_default),
     WithMeta(B3, "arch", MkArch({"pkgver", "depends"}, <<"a", "-", "b", "-", "c">>, <<<<"e">>, <<",", " ">>>>)),
     WithMeta(B2, "arch", MkArch(Fields, <<"x", "\n", "u", "r", "l", "=">>, <<<<"\"">>>>))}

\* the manifest files of whole runs
RunFiles == {Absent, NonUtf8, Malformed} \cup {Valid(c) : c \in RunCargos}

\* manifest_path, CARGO_MANIFEST_DIR and the directory holding the manifest
ArgCases ==
    {<<None, None, ".">>, <<None, Some("e"), "e">>, <<Some("p"), None, "p">>,
     <<Some("p"), Some("e"), "p">>, <<None, Some("e"), ".">>}

\* PKGBUILD before the first run: absent, empty, short, longer than any output
OldPkgbuilds ==
    {None, Some(<<>>), Some(<<"o", "l", "d">>), Some([i \in 1..OldLen |-> "#"])}

----------------------------------------------------------------------------
(* ArchConfig::new *)

\* File::open(path).unwrap() succeeds
Open ==
    /\ pc = "start"
    /\ fs[ManifestPath(manifest_path, env_dir)].kind # "absent"
    /\ pc' = "opened"
    /\ UNCHANGED <<manifest_path, env_dir, fs, pkgbuild, content, config,
                   buffer, before, last, runs>>

\* File::open(path).unwrap() panics
OpenFail ==
    /\ pc = "start"
    /\ fs[ManifestPath(manifest_path, env_dir)].kind = "absent"
    /\ pc' = "panicked"
    /\ UNCHANGED <<manifest_path, env_dir, fs, pkgbuild, content, config,
                   buffer, before, last, runs>>

\* read_to_string(&mut content) succeeds
ReadToString ==
    /\ pc = "opened"
    /\ fs[ManifestPath(manifest_path, env_dir)].kind # "nonutf8"
    /\ content' = Some(fs[ManifestPath(manifest_path, env_dir)])
    /\ pc' = "read"
    /\ UNCHANGED <<manifest_path, env_dir, fs, pkgbuild, config, buffer,
                   before, last, runs>>

\* read_to_string(&mut content).expect(..) panics
ReadFail ==
    /\ pc = "opened"
    /\ fs[ManifestPath(manifest_path, env_dir)].kind = "nonutf8"
    /\ pc' = "panicked"
    /\ UNCHANGED <<manifest_path, env_dir, fs, pkgbuild, content, config,
                   buffer, before, last, runs>>

\* toml::from_str::<Cargo>(&content).expect(..).to_config()
Decode ==
    /\ pc = "read"
    /\ content[1].kind = "valid"
    /\ config' = Some(to_config(content[1].cargo[1]))
    /\ pc' = "resolved"
    /\ UNCHANGED <<manifest_path, env_dir, fs, pkgbuild, content, buffer,
                   before, last, runs>>

\* toml::from_str::<Cargo>(&content).expect(..) panics
DecodeFail ==
    /\ pc = "read"
    /\ content[1].kind # "valid"
    /\ pc' = "panicked"
    /\ UNCHANGED <<manifest_path, env_dir, fs, pkgbuild, content, config,
                   buffer, before, last, runs>>

----------------------------------------------------------------------------
(* ArchConfig::generate_pkgbuild *)

\* the buffer is built in memory
Render ==
    /\ pc = "resolved"
    /\ buffer' = pkgbuild_text(config[1])
    /\ pc' = "rendered"
    /\ UNCHANGED <<manifest_path, env_dir, fs, pkgbuild, content, config,
                   before, last, runs>>

\* File::create("PKGBUILD").unwrap() succeeds
Create ==
    /\ pc = "rendered"
    /\ pkgbuild' = FileCreate(pkgbuild)
    /\ pc' = "created"
    /\ UNCHANGED <<manifest_path, env_dir, fs, content, config, buffer,
                   before, last, runs>>

\* File::create("PKGBUILD").unwrap() panics
CreateFail ==
    /\ pc = "rendered"
    /\ pc' = "panicked"
    /\ UNCHANGED <<manifest_path, env_dir, fs, pkgbuild, content, config,
                   buffer, before, last, runs>>

\* write!(file, "{}", buffer).unwrap() succeeds
Write ==
    /\ pc = "created"
    /\ pkgbuild' = WriteAt0(pkgbuild, buffer)
    /\ pc' = "done"
    /\ UNCHANGED <<manifest_path, env_dir, fs, content, config, buffer,
                   before, last, runs>>

\* write!(file, "{}", buffer).unwrap() panics after k characters
WriteFail ==
    /\ pc = "created"
    /\ \E k \in WriteCuts(Len(buffer)) :
          pkgbuild' = WriteAt0(pkgbuild, SubSeq(buffer, 1, k))
    /\ pc' = "panicked"
    /\ UNCHANGED <<manifest_path, env_dir, fs, content, config, buffer,
                   before, last, runs>>

\* the program is run again on the same manifest
Rerun ==
    /\ pc \in {"done", "panicked"}
    /\ runs < MaxRuns
    /\ pc' = "start"
    /\ content' = None
    /\ config' = None
    /\ buffer' = <<>>
    /\ before' = IF pc = "done" THEN Some(pkgbuild) ELSE None
    /\ last' = IF pc = "done" THEN "ok" ELSE "failed"
    /\ runs' = runs + 1
    /\ UNCHANGED <<manifest_path, env_dir, fs, pkgbuild>>

----------------------------------------------------------------------------
(* Specifications *)

\* whole runs: any manifest file, any arguments, any PKGBUILD on disk
Init ==
    \E a \in ArgCases, f \in RunFiles, old \in OldPkgbuilds :
        /\ manifest_path = a[1]
        /\ env_dir = a[2]
        /\ fs = [p \in ManifestPaths |->
                    IF p = a[3] \o "/Cargo.toml" THEN f ELSE Absent]
        /\ pkgbuild = old
        /\ pc = "start"
        /\ content = None
        /\ config = None
        /\ buffer = <<>>
        /\ before = Some(old)
        /\ last = "none"
        /\ runs = 1

Next ==
    \/ Open \/ OpenFail \/ ReadToString \/ ReadFail \/ Decode \/ DecodeFail
    \/ Render \/ Create \/ CreateFail \/ Write \/ WriteFail \/ Rerun

Spec == Init /\ [][Next]_vars

\* resolution and rendering: the run has read a manifest that decodes
InitConfig ==
    \E c \in ConfigCargos :
        /\ manifest_path = None
        /\ env_dir = None
        /\ fs = [p \in ManifestPaths |->
                    IF p = "./Cargo.toml" THEN Valid(c) ELSE Absent]
        /\ pkgbuild = None
        /\ pc = "read"
        /\ content = Some(Valid(c))
        /\ config = None
        /\ buffer = <<>>
        /\ before = Some(None)
        /\ last = "none"
        /\ runs = 1

NextConfig == Decode \/ Render

SpecConfig == InitConfig /\ [][NextConfig]_vars

----------------------------------------------------------------------------
(* Vocabulary of the properties *)

\* the manifest the run has decoded
Manifest == content[1].cargo[1]

\* the manifest file the run reads
ManifestFile == fs[ManifestPath(manifest_path, env_dir)]

\* ArchConfig::new has returned
Resolved == config # None

\* generate_pkgbuild has built its buffer
Rendered == pc \in {"rendered", "created", "done"}

\* the manifest has a [package.metadata.arch] table that sets field f
Overridden(c, f) ==
    /\ c.package.metadata # None
    /\ c.package.metadata[1].arch # None
    /\ c.package.metadata[1].arch[1][f] # None

\* the value that table gives to field f
OverrideValue(c, f) == c.package.metadata[1].arch[1][f][1]

\* the 28 keys of a PKGBUILD, in the order of the format
FieldNames ==
    <<"pkgname", "pkgver", "pkgrel", "epoch", "pkgdesc", "url", "license",
      "install", "changelog", "source", "validpgpkeys", "noextract",
      "md5sums", "sha1sums", "sha256sums", "sha384sums", "sha512sums",
      "groups", "arch", "backup", "depends", "makedepends", "checkdepends",
      "optdepends", "conflicts", "provides", "replaces", "options">>

\* the same keys as text
KeyText ==
    <<<<"p", "k", "g", "n", "a", "m", "e">>, <<"p", "k", "g", "v", "e", "r">>, <<"p", "k", "g", "r", "e", "l">>, <<"e", "p", "o", "c", "h">>, <<"p", "k", "g", "d", "e", "s", "c">>, <<"u", "r", "l">>, <<"l", "i", "c", "e", "n", "s", "e">>,
      <<"i", "n", "s", "t", "a", "l", "l">>, <<"c", "h", "a", "n", "g", "e", "l", "o", "g">>, <<"s", "o", "u", "r", "c", "e">>, <<"v", "a", "l", "i", "d", "p", "g", "p", "k", "e", "y", "s">>, <<"n", "o", "e", "x", "t", "r", "a", "c", "t">>,
      <<"m", "d", "5", "s", "u", "m", "s">>, <<"s", "h", "a", "1", "s", "u", "m", "s">>, <<"s", "h", "a", "2", "5", "6", "s", "u", "m", "s">>, <<"s", "h", "a", "3", "8", "4", "s", "u", "m", "s">>, <<"s", "h", "a", "5", "1", "2", "s", "u", "m", "s">>,
      <<"g", "r", "o", "u", "p", "s">>, <<"a", "r", "c", "h">>, <<"b", "a", "c", "k", "u", "p">>, <<"d", "e", "p", "e", "n", "d", "s">>, <<"m", "a", "k", "e", "d", "e", "p", "e", "n", "d", "s">>, <<"c", "h", "e", "c", "k", "d", "e", "p", "e", "n", "d", "s">>,
      <<"o", "p", "t", "d", "e", "p", "e", "n", "d", "s">>, <<"c", "o", "n", "f", "l", "i", "c", "t", "s">>, <<"p", "r", "o", "v", "i", "d", "e", "s">>, <<"r", "e", "p", "l", "a", "c", "e", "s">>, <<"o", "p", "t", "i", "o", "n", "s">>>>

\* the scalar fields that are emitted between double quotes
QuotedFields == {"pkgdesc", "url", "install", "changelog"}

Max(a, b) == IF a > b THEN a ELSE b

RECURSIVE SumLen(_)
\* total length of the strings of ss
SumLen(ss) == IF ss = <<>> THEN 0 ELSE Len(Head(ss)) + SumLen(Tail(ss))

\* length of the maintainer comments and the blank line after them
HeaderLen(cfg) ==
    SumLen(cfg.maintainers)
        + Len(cfg.maintainers) * (Len(<<"#", " ", "M", "a", "i", "n", "t", "a", "i", "n", "e", "r", ":", " ">>) + 1) + 1

\* length of a list of quoted elements separated by ", "
ListLen(es) == SumLen(es) + 2 * Len(es) + 2 * Max(0, Len(es) - 1)

\* length of the line of the i-th key, its newline included
LineLen(cfg, i) ==
    LET f == FieldNames[i]
        v == cfg[f]
    IN  Len(KeyText[i]) + 1
          + (IF f \in ArrayFields THEN 2 + ListLen(v)
             ELSE IF f \in QuotedFields THEN 2 + Len(v)
             ELSE Len(v))
          + 1

RECURSIVE LineStart(_, _)
\* number of characters of the text before the line of the i-th key
LineStart(cfg, i) ==
    IF i = 1 THEN HeaderLen(cfg)
    ELSE LineStart(cfg, i - 1) + LineLen(cfg, i - 1)

\* the line of the i-th key as found in the buffer
BufLine(i) ==
    SubSeq(buffer, LineStart(config[1], i) + 1,
           LineStart(config[1], i) + LineLen(config[1], i))

\* the text between the maintainer header and the template
Body ==
    SubSeq(buffer, HeaderLen(config[1]) + 1,
           Len(buffer) - Len(PKGBUILD_TEMPLATE))

\* the characters a key is made of
KeyChars ==
    {"a", "b", "c", "d", "e", "f", "g", "h", "i", "j", "k", "l", "m", "n",
     "o", "p", "q", "r", "s", "t", "u", "v", "w", "x", "y", "z", "0", "1",
     "2", "3", "4", "5", "6", "7", "8", "9", "_"}

\* the line begins with a key followed by "="
IsDecl(line) ==
    LET i == IndexOf(line, "=")
    IN  i > 1 /\ \A j \in 1..(i - 1) : line[j] \in KeyChars

\* the key a declaration line declares
DeclKey(line) == SubSeq(line, 1, IndexOf(line, "=") - 1)

\* the keys declared by the lines of text, in order
DeclKeys(text) ==
    LET decls == SelectSeq(split(text, "\n"), IsDecl)
    IN  [i \in 1..Len(decls) |-> DeclKey(decls[i])]

\* no field of cfg holds a newline character
NoNewline(cfg) ==
    /\ \A f \in ScalarFields : \A i \in 1..Len(cfg[f]) : cfg[f][i] # "\n"
    /\ \A f \in ArrayFields : \A j \in 1..Len(cfg[f]) :
          \A i \in 1..Len(cfg[f][j]) : cfg[f][j][i] # "\n"

\* number of hyphens of s
Hyphens(s) == Cardinality({i \in 1..Len(s) : s[i] = "-"})

RECURSIVE Trim(_)
\* s without its leading and trailing blanks
Trim(s) ==
    IF s # <<>> /\ Head(s) = " " THEN Trim(Tail(s))
    ELSE IF s # <<>> /\ s[Len(s)] = " " THEN Trim(SubSeq(s, 1, Len(s) - 1))
    ELSE s

\* s, between double quotes
Quoted(s) == <<"\"">> \o s \o <<"\"">>

RECURSIVE Joined(_)
\* the elements of es between double quotes, ", " between neighbours
Joined(es) ==
    IF Len(es) = 0 THEN <<>>
    ELSE IF Len(es) = 1 THEN Quoted(es[1])
    ELSE Joined(SubSeq(es, 1, Len(es) - 1)) \o <<",", " ">> \o Quoted(es[Len(es)])

RECURSIVE MaintainerComments(_, _)
\* the comment lines of the first n maintainers
MaintainerComments(ms, n) ==
    IF n = 0 THEN <<>>
    ELSE MaintainerComments(ms, n - 1) \o <<"#", " ", "M", "a", "i", "n", "t", "a", "i", "n", "e", "r", ":", " ">> \o ms[n] \o <<"\n">>

----------------------------------------------------------------------------
(* Properties of Cargo::to_config, checked under SpecConfig *)

\* C1: override precedence. Every field the [package.metadata.arch] table
\* sets resolves to exactly the value the table gives, whatever the manifest
\* holds and whatever other fields the table sets.
C1_OverridePrecedence ==
    Resolved =>
        \A f \in Fields :
            Overridden(Manifest, f) => config[1][f] = OverrideValue(Manifest, f)

\* a resolved run whose pkgname override differs from the manifest name while
\* pkgver has no override
C1_Witness ==
    /\ Resolved
    /\ Overridden(Manifest, "pkgname")
    /\ OverrideValue(Manifest, "pkgname") # Manifest.package.name
    /\ ~Overridden(Manifest, "pkgver")
    /\ config[1].pkgname = OverrideValue(Manifest, "pkgname")

\* C2: url fallback chain. The resolved url is the override url if present
\* (even empty), else the homepage if present, else the repository if
\* present, else the empty string.
C2_UrlChain ==
    Resolved =>
        config[1].url =
            IF Overridden(Manifest, "url") THEN OverrideValue(Manifest, "url")
            ELSE IF Manifest.package.homepage # None
                 THEN Manifest.package.homepage[1]
            ELSE IF Manifest.package.repository # None
                 THEN Manifest.package.repository[1]
            ELSE <<>>

\* a resolved run with no override url, where homepage and repository are
\* both present and differ, and homepage won
C2_Witness ==
    /\ Resolved
    /\ ~Overridden(Manifest, "url")
    /\ Manifest.package.homepage # None
    /\ Manifest.package.repository # None
    /\ Manifest.package.homepage # Manifest.package.repository
    /\ config[1].url = Manifest.package.homepage[1]

\* C3: license derivation. Without a license override, the resolved license
\* is the manifest license split on "/", each piece trimmed of leading and
\* trailing whitespace, in order; no "/" gives one element.
C3_LicenseTrimmedSplit ==
    (Resolved /\ ~Overridden(Manifest, "license")) =>
        LET pieces == split(Manifest.package.license, "/")
        IN  /\ config[1].license = [i \in 1..Len(pieces) |-> Trim(pieces[i])]
            /\ \A i \in 1..Len(config[1].license) :
                  config[1].license[i] = Trim(config[1].license[i])

\* C7: no-override baseline. Without a metadata table, without an arch table
\* or with an arch table that sets nothing, the result is the same: authors,
\* name, version and description copied, pkgrel "1", epoch "0", install and
\* changelog empty, every array other than maintainers and license empty.
C7_NoOverrideBaseline ==
    (Resolved /\ \A f \in Fields : ~Overridden(Manifest, f)) =>
        /\ config[1].maintainers = Manifest.package.authors
        /\ config[1].pkgname = Manifest.package.name
        /\ config[1].pkgver = Manifest.package.version
        /\ config[1].pkgdesc = Manifest.package.description
        /\ config[1].pkgrel = <<"1">>
        /\ config[1].epoch = <<"0">>
        /\ config[1].install = <<>>
        /\ config[1].changelog = <<>>
        /\ \A f \in ArrayFields \ {"maintainers", "license"} :
              config[1][f] = <<>>
        /\ config[1] =
              to_config([package |->
                  [Manifest.package EXCEPT !.metadata = None]])

\* a resolved run whose manifest has a metadata table without an arch table
C7_Witness ==
    /\ Resolved
    /\ Manifest.package.metadata = Some([arch |-> None])
    /\ Manifest.package.authors # <<>>
    /\ config[1].pkgrel = <<"1">>

----------------------------------------------------------------------------
(* Properties of the generated text, checked under SpecConfig *)

\* C5 as stated: for every ArchConfig, values with quotes or newlines
\* included, the lines of the text between the maintainer header and the
\* template that begin with `key=` declare exactly the 28 keys, once each, in
\* the order of the format.
C5_FieldOrderAnyValue ==
    Rendered => DeclKeys(Body) = KeyText

\* C5, amended: the same for every ArchConfig none of whose values holds a
\* newline character (quotes are allowed).
C5_FieldOrder ==
    (Rendered /\ NoNewline(config[1])) => DeclKeys(Body) = KeyText

\* a rendered text whose overridden values hold quotes but no newline
C5_Witness ==
    /\ Rendered
    /\ NoNewline(config[1])
    /\ Overridden(Manifest, "pkgdesc")
    /\ config[1].pkgdesc = <<"q", "\"", "q">>
    /\ ~Overridden(Manifest, "pkgver")
    /\ DeclKeys(Body) = KeyText

\* C8: sequence rendering. The line of every sequence field is the key, "=(",
\* the elements between double quotes in order with ", " between neighbours,
\* ")"; an empty sequence gives `key=()`; elements are copied unescaped, so
\* there are max(0, length - 1) separators.
C8_SequenceRendering ==
    Rendered =>
        \A i \in 1..Len(FieldNames) :
            FieldNames[i] \in ArrayFields =>
                LET es == config[1][FieldNames[i]]
                IN  /\ BufLine(i) = KeyText[i] \o <<"=", "(">> \o Joined(es) \o <<")", "\n">>
                    /\ es = <<>> => BufLine(i) = KeyText[i] \o <<"=", "(", ")", "\n">>
                    /\ Len(BufLine(i)) - Len(KeyText[i]) - Len(<<"=", "(", ")", "\n">>)
                         - SumLen(es) - 2 * Len(es)
                         = Len(<<",", " ">>) * Max(0, Len(es) - 1)

\* a rendered text with an empty sequence, a one-element sequence and a
\* two-element sequence whose elements hold quotes or separators
C8_Witness ==
    /\ Rendered
    /\ config[1].source = <<>>
    /\ Len(config[1].depends) = 2
    /\ config[1].depends[1] \in {<<"\"">>, <<",", " ">>}
    /\ BufLine(10) = <<"s", "o", "u", "r", "c", "e", "=", "(", ")", "\n">>
    /\ BufLine(21) = <<"d", "e", "p", "e", "n", "d", "s", "=", "(">> \o Joined(config[1].depends) \o <<")", "\n">>

\* C9: version sanitization. The pkgver line is `pkgver=` and the resolved
\* pkgver with every "-" replaced by "_", everything else unchanged and
\* unquoted; the resolved pkgver itself keeps its hyphens; this is so for an
\* overridden pkgver and for the manifest version alike.
C9_VersionSanitized ==
    Rendered =>
        LET v == config[1].pkgver
            line == BufLine(2)
            n == Len(<<"p", "k", "g", "v", "e", "r", "=">>)
        IN  /\ Len(line) = n + Len(v) + 1
            /\ SubSeq(line, 1, n) = <<"p", "k", "g", "v", "e", "r", "=">>
            /\ line[Len(line)] = "\n"
            /\ \A i \in 1..Len(v) :
                  line[n + i] = IF v[i] = "-" THEN "_" ELSE v[i]
            /\ \A i \in 1..Len(line) : line[i] # "-"
            /\ v = IF Overridden(Manifest, "pkgver")
                   THEN OverrideValue(Manifest, "pkgver")
                   ELSE Manifest.package.version

\* a rendered text whose pkgver comes from the manifest version and has two
\* hyphens
C9_Witness ==
    /\ Rendered
    /\ ~Overridden(Manifest, "pkgver")
    /\ Hyphens(config[1].pkgver) >= 2
    /\ Hyphens(BufLine(2)) = 0

\* C10: maintainer header and tail. The text starts with one line
\* `# Maintainer: <name>` per maintainer, in order, then one blank line, then
\* the pkgname line (with no maintainer it starts with the blank line); after
\* the options line come one blank line and the template, verbatim.
C10_HeaderAndTail ==
    Rendered =>
        LET ms == config[1].maintainers
            h == HeaderLen(config[1])
            e == LineStart(config[1], Len(FieldNames))
                   + LineLen(config[1], Len(FieldNames))
        IN  /\ SubSeq(buffer, 1, h) = MaintainerComments(ms, Len(ms)) \o <<"\n">>
            /\ SubSeq(buffer, h + 1, h + Len(<<"p", "k", "g", "n", "a", "m", "e", "=">>)) = <<"p", "k", "g", "n", "a", "m", "e", "=">>
            /\ ms = <<>> => SubSeq(buffer, 1, 2) = <<"\n", "p">>
            /\ SubSeq(BufLine(Len(FieldNames)), 1, Len(<<"o", "p", "t", "i", "o", "n", "s", "=", "(">>)) = <<"o", "p", "t", "i", "o", "n", "s", "=", "(">>
            /\ SubSeq(buffer, e + 1, Len(buffer)) = <<"\n">> \o PKGBUILD_TEMPLATE

\* a rendered text with two maintainers
C10_Witness ==
    /\ Rendered
    /\ Len(config[1].maintainers) = 2
    /\ config[1].maintainers[1] # config[1].maintainers[2]
    /\ SubSeq(buffer, 1, Len(<<"#", " ", "M", "a", "i", "n", "t", "a", "i", "n", "e", "r", ":", " ">>)) = <<"#", " ", "M", "a", "i", "n", "t", "a", "i", "n", "e", "r", ":", " ">>

----------------------------------------------------------------------------
(* Properties of whole runs, checked under Spec *)

\* C4: all-or-nothing output. After a failed run the PKGBUILD on disk is
\* what it was before the run or the complete text, never empty, truncated
\* or partial (stated for the runs whose starting file is recorded).
C4_AllOrNothing ==
    (pc = "panicked" /\ before # None) =>
        \/ pkgbuild = before[1]
        \/ /\ Resolved
           /\ pkgbuild = Some(pkgbuild_text(config[1]))

\* C6: repeated runs. After a successful run, whatever PKGBUILD was on disk
\* before, the file is exactly the text rendered from the resolved manifest,
\* and a successful run that follows a successful run leaves the file as it
\* found it.
C6_IdempotentOverwrite ==
    pc = "done" =>
        /\ pkgbuild = Some(pkgbuild_text(to_config(ManifestFile.cargo[1])))
        /\ last = "ok" => pkgbuild = before[1]

\* a second successful run in a row, over a file the first run wrote
C6_Witness ==
    /\ pc = "done"
    /\ last = "ok"
    /\ runs = 2
    /\ before[1] # None
    /\ pkgbuild = before[1]

====
